---- MODULE Spec2Model ----
(***************************************************************************)
(* Model of server/Services/ebEmulator/ebridge.py: a flat script that      *)
(* checks its command line, then drives a browser through the eBridge      *)
(* login and timetable pages and prints the src of the frame 'myFrame'.    *)
(*                                                                         *)
(* One action per statement of the script.  `line` is the line of the      *)
(* statement about to run.  Every call the script makes on the browser,    *)
(* every sleep and every print is appended to `trace`, in the order the    *)
(* interpreter issues them.  The website is the environment: each call on  *)
(* the browser either returns or raises, and the frame the last page       *)
(* shows is chosen by the site.  The site never echoes the credentials     *)
(* (Urls and ArgValues are disjoint), so a credential that shows up        *)
(* anywhere but in a fill was put there by the script.                     *)
(***************************************************************************)
EXTENDS Integers, Sequences, FiniteSets, TLC

VARIABLES argv, line, status, exitStatus, username, password,
          browser, frameSrc, stdout, trace

vars == <<argv, line, status, exitStatus, username, password,
          browser, frameSrc, stdout, trace>>

(* ------------------------------ bounds --------------------------------- *)

\* Largest number of command-line arguments after the script name.
MaxArgs == 3

\* Values a command-line argument can take.
ArgValues == {"alice", "s3cret", "extra"}

\* Values the src attribute of the frame can have on the live page.
Urls == {"https://tt/a", "https://tt/b"}

(* --------------------------- script constants -------------------------- *)

ScriptName == "ebridge.py"
Unset      == "<unset>"
NoFrame    == "<no myFrame>"
NoExit     == -1

MissingArgsMessage == "Error: Missing username or password arguments"
LoginUrl     == "https://ebridge.xjtlu.edu.cn"
UsernameSel  == "#MUA_CODE.DUMMY.MENSYS"
PasswordSel  == "#PASSWORD.DUMMY.MENSYS"
SubmitSel    == "form fieldset input"
TileLinkSel  == "sv-tiled-container a"
TimetablesBtn == "button: Timetables"
TimetableHrefJs == "window.location = #collapsible-panel-I7 href"
ClearTargetJs == "tile link target = ''"
ConfirmBtn   == "button: confirm"
EntrySel     == "sv-list-group a > div"
FrameSrcJs   == "document.getElementById('myFrame').src"

SleepAfterVisitSecs == 3
SleepAfterGotoSecs  == 1
FinalSleepSecs      == 2

\* The lines of the statements of the automation flow, top to bottom.
FlowLines == <<16, 17, 18, 19, 20, 21, 22, 23, 24, 25, 26, 27, 28,
               31, 32, 33, 34, 35>>

\* A line past the last statement: the interpreter has run off the end.
EndOfScript == 36

\* Variant: the submit click is issued before the password is filled.
NextStmtSubmitEarly(l) ==
    CASE l = 20 -> 22
      [] l = 22 -> 21
      [] l = 21 -> 23
      [] l = 35 -> EndOfScript
      [] OTHER -> FlowLines[(CHOOSE j \in 1..Len(FlowLines) : FlowLines[j] = l) + 1]

\* The statement that runs after the statement at line l returns.
NextStmt(l) ==
    LET i == CHOOSE j \in 1..Len(FlowLines) : FlowLines[j] = l
    IN  IF i = Len(FlowLines) THEN EndOfScript ELSE FlowLines[i + 1]

(* ------------------------------ helpers -------------------------------- *)

\* One call as the script issues it.
Call(l, op, target, value, secs) ==
    [line |-> l, op |-> op, target |-> target, value |-> value,
     secs |-> secs, ok |-> TRUE]

Failed(e) == [e EXCEPT !.ok = FALSE]

\* Variant: the test is len(sys.argv) > 1.
HasCredentialArgsOffByOne(a) == Len(a) > 1

\* Variant: the test is len(sys.argv) == 3.
HasExactlyTwoArgs(a) == Len(a) = 3

\* len(sys.argv) > 2
HasCredentialArgs(a) == Len(a) > 2

\* sys.argv[k], Python's 0-based index; the list holds the script name first.
SysArgv(a, k) == a[k + 1]

\* The call returned: control moves to the next statement.
Return(e) ==
    /\ trace' = Append(trace, e)
    /\ line' = NextStmt(e.line)
    /\ UNCHANGED <<status, exitStatus>>

\* Variant: the call is wrapped in try/except and the script carries on.
RaiseSwallowed(e) ==
    /\ trace' = Append(trace, Failed(e))
    /\ line' = NextStmt(e.line)
    /\ UNCHANGED <<status, exitStatus>>

\* The call raised.  The script has no try/except, so the exception leaves
\* the module: traceback on stderr, exit status 1, nothing else runs.
Raise(e) ==
    /\ trace' = Append(trace, Failed(e))
    /\ status' = "crashed"
    /\ exitStatus' = 1
    /\ UNCHANGED line

\* Whether a method of BrowserEmulator (start, visit, wait_for_load, eval_js)
\* signals its failure by raising, as the calls of the automation library do.
EmulatorRaisesOnFailure == TRUE

\* A statement that is one call of a BrowserEmulator method.
EmulatorCall(e) ==
    /\ status = "running"
    /\ line = e.line
    /\ \/ Return(e)
       \/ EmulatorRaisesOnFailure /\ Raise(e)

\* A statement of the form browser.focusedpage.<locate>(...).<act>(...):
\* query_selector gives None when nothing matches and the method call on
\* None raises AttributeError; get_by_role(...).click() raises on timeout.
PageCall(e) ==
    /\ status = "running"
    /\ line = e.line
    /\ \/ Return(e)
       \/ Raise(e)

\* Variant: the pause polls the page and returns as soon as it is ready.
SleepUntilReady(l, secs) ==
    /\ status = "running"
    /\ line = l
    /\ \E waited \in 0..secs : Return(Call(l, "sleep", "time", "", waited))

\* time.sleep(secs): returns after secs seconds whatever the page does.
Sleep(l, secs) ==
    /\ status = "running"
    /\ line = l
    /\ Return(Call(l, "sleep", "time", "", secs))

(* ------------------------------ initial -------------------------------- *)

\* The arguments after the script name.
ArgLists == UNION {[1..n -> ArgValues] : n \in 0..MaxArgs}

\* Lines 1-4 (the imports) are done and create no browser; the first
\* statement to run is the test of line 7.
Init ==
    /\ argv \in {<<ScriptName>> \o a : a \in ArgLists}
    /\ line = 7
    /\ status = "running"
    /\ exitStatus = NoExit
    /\ username = Unset
    /\ password = Unset
    /\ browser = "none"
    /\ frameSrc = NoFrame
    /\ stdout = <<>>
    /\ trace = <<>>

(* --------------------------- argument check ---------------------------- *)

\* line 7: if len(sys.argv) > 2:
CheckArgs ==
    /\ status = "running"
    /\ line = 7
    /\ line' = IF HasCredentialArgs(argv) THEN 8 ELSE 12
    /\ UNCHANGED <<argv, status, exitStatus, username, password, browser,
                   frameSrc, stdout, trace>>

\* line 8: username = sys.argv[1]
SetUsername ==
    /\ status = "running"
    /\ line = 8
    /\ IF Len(argv) > 1
       THEN /\ username' = SysArgv(argv, 1)
            /\ line' = 9
            /\ UNCHANGED <<status, exitStatus>>
       ELSE /\ status' = "crashed"
            /\ exitStatus' = 1
            /\ UNCHANGED <<username, line>>
    /\ UNCHANGED <<argv, password, browser, frameSrc, stdout, trace>>

\* line 9: password = sys.argv[2]
SetPassword ==
    /\ status = "running"
    /\ line = 9
    /\ IF Len(argv) > 2
       THEN /\ password' = SysArgv(argv, 2)
            /\ line' = 16
            /\ UNCHANGED <<status, exitStatus>>
       ELSE /\ status' = "crashed"
            /\ exitStatus' = 1
            /\ UNCHANGED <<password, line>>
    /\ UNCHANGED <<argv, username, browser, frameSrc, stdout, trace>>

\* line 12: print("Error: Missing username or password arguments")
PrintMissingArgs ==
    /\ status = "running"
    /\ line = 12
    /\ stdout' = Append(stdout, MissingArgsMessage)
    /\ trace' = Append(trace, Call(12, "print", "stdout", MissingArgsMessage, 0))
    /\ line' = 13
    /\ UNCHANGED <<argv, status, exitStatus, username, password, browser,
                   frameSrc>>

\* Variant: the else branch prints the message but does not exit.
ExitMissingArgsFallsThrough ==
    /\ status = "running"
    /\ line = 13
    /\ line' = 16
    /\ UNCHANGED <<argv, status, exitStatus, username, password, browser,
                   frameSrc, stdout, trace>>

\* line 13: sys.exit(1)
ExitMissingArgs ==
    /\ status = "running"
    /\ line = 13
    /\ status' = "exited"
    /\ exitStatus' = 1
    /\ UNCHANGED <<argv, line, username, password, browser, frameSrc,
                   stdout, trace>>

(* --------------------------- automation flow --------------------------- *)

\* line 16: browser = BrowserEmulator(headless=False)
CreateBrowser ==
    /\ status = "running"
    /\ line = 16
    /\ Return(Call(16, "create", "BrowserEmulator", "headless=False", 0))
    /\ browser' = "created"
    /\ UNCHANGED <<argv, username, password, frameSrc, stdout>>

\* line 17: browser.start()
StartBrowser ==
    /\ EmulatorCall(Call(17, "start", "browser", "", 0))
    /\ browser' = IF status' = "running" THEN "started" ELSE browser
    /\ UNCHANGED <<argv, username, password, frameSrc, stdout>>

\* line 18: browser.visit("https://ebridge.xjtlu.edu.cn")
Visit ==
    /\ EmulatorCall(Call(18, "visit", "browser", LoginUrl, 0))
    /\ UNCHANGED <<argv, username, password, browser, frameSrc, stdout>>

\* line 19: time.sleep(3)
SleepAfterVisit ==
    /\ Sleep(19, SleepAfterVisitSecs)
    /\ UNCHANGED <<argv, username, password, browser, frameSrc, stdout>>

\* line 20: ...query_selector("#MUA_CODE\\.DUMMY\\.MENSYS").fill(username)
FillUsername ==
    /\ PageCall(Call(20, "fill", UsernameSel, username, 0))
    /\ UNCHANGED <<argv, username, password, browser, frameSrc, stdout>>

\* Variant: the password field is filled with the username.
FillPasswordFromUsername ==
    /\ PageCall(Call(21, "fill", PasswordSel, username, 0))
    /\ UNCHANGED <<argv, username, password, browser, frameSrc, stdout>>

\* line 21: ...query_selector("#PASSWORD\\.DUMMY\\.MENSYS").fill(password)
FillPassword ==
    /\ PageCall(Call(21, "fill", PasswordSel, password, 0))
    /\ UNCHANGED <<argv, username, password, browser, frameSrc, stdout>>

\* line 22: ...query_selector("body > div > form > ... > input").click()
ClickSubmit ==
    /\ PageCall(Call(22, "click", SubmitSel, "", 0))
    /\ UNCHANGED <<argv, username, password, browser, frameSrc, stdout>>

\* line 23: browser.wait_for_load()
WaitForLoadAfterSubmit ==
    /\ EmulatorCall(Call(23, "wait_for_load", "browser", "", 0))
    /\ UNCHANGED <<argv, username, password, browser, frameSrc, stdout>>

\* line 24: browser.eval_js('document.querySelector("...> a").target = ""')
ClearTileTarget ==
    /\ EmulatorCall(Call(24, "eval_js", ClearTargetJs, "", 0))
    /\ UNCHANGED <<argv, username, password, browser, frameSrc, stdout>>

\* line 25: ...query_selector("... div.sv-tiled-container ... > a").click()
ClickTile ==
    /\ PageCall(Call(25, "click", TileLinkSel, "", 0))
    /\ UNCHANGED <<argv, username, password, browser, frameSrc, stdout>>

\* line 26: browser.wait_for_load()
WaitForLoadAfterTile ==
    /\ EmulatorCall(Call(26, "wait_for_load", "browser", "", 0))
    /\ UNCHANGED <<argv, username, password, browser, frameSrc, stdout>>

\* line 27: ...get_by_role("button", name=" Timetables ").click()
ClickTimetables ==
    /\ PageCall(Call(27, "click", TimetablesBtn, "", 0))
    /\ UNCHANGED <<argv, username, password, browser, frameSrc, stdout>>

\* line 28: browser.eval_js('window.location = ...childNodes[0].href')
GotoTimetableHref ==
    /\ EmulatorCall(Call(28, "eval_js", TimetableHrefJs, "", 0))
    /\ UNCHANGED <<argv, username, password, browser, frameSrc, stdout>>

\* line 31: time.sleep(1)
SleepAfterGoto ==
    /\ Sleep(31, SleepAfterGotoSecs)
    /\ UNCHANGED <<argv, username, password, browser, frameSrc, stdout>>

\* Variant: the confirm button is pressed from a script, not by a click.
ConfirmViaJs ==
    /\ EmulatorCall(Call(32, "eval_js", ConfirmBtn, "", 0))
    /\ UNCHANGED <<argv, username, password, browser, frameSrc, stdout>>

\* line 32: ...get_by_role("button", name="确定").click()
ClickConfirm ==
    /\ PageCall(Call(32, "click", ConfirmBtn, "", 0))
    /\ UNCHANGED <<argv, username, password, browser, frameSrc, stdout>>

\* line 33: ...query_selector("... div.sv-list-group ... > a > div").click()
\* The page the click opens holds the frame, or does not.
ClickTimetableEntry ==
    /\ PageCall(Call(33, "click", EntrySel, "", 0))
    /\ IF status' = "running"
       THEN frameSrc' \in Urls \cup {NoFrame}
       ELSE UNCHANGED frameSrc
    /\ UNCHANGED <<argv, username, password, browser, stdout>>

\* What eval_js gives back: the value of the script in the focused page.
EvalJsResult(js) == IF js = FrameSrcJs THEN frameSrc ELSE ""

\* Variant: the result of eval_js is dropped and the page address printed.
PrintLoginUrl ==
    /\ status = "running"
    /\ line = 34
    /\ \/ /\ frameSrc # NoFrame
          /\ trace' = trace \o
                <<Call(34, "eval_js", FrameSrcJs, EvalJsResult(FrameSrcJs), 0),
                  Call(34, "print", "stdout", LoginUrl, 0)>>
          /\ stdout' = Append(stdout, LoginUrl)
          /\ line' = NextStmt(34)
          /\ UNCHANGED <<status, exitStatus>>
       \/ /\ EmulatorRaisesOnFailure
          /\ Raise(Call(34, "eval_js", FrameSrcJs, "", 0))
          /\ UNCHANGED stdout
    /\ UNCHANGED <<argv, username, password, browser, frameSrc>>

\* line 34: print(browser.eval_js("document.getElementById('myFrame').src"))
\* The argument is evaluated first; print runs only if eval_js returned.
\* Without the frame the script dereferences null and the call fails.
PrintFrameSrc ==
    /\ status = "running"
    /\ line = 34
    /\ \/ /\ frameSrc # NoFrame
          /\ LET result == EvalJsResult(FrameSrcJs)
             IN  /\ trace' = trace \o
                       <<Call(34, "eval_js", FrameSrcJs, result, 0),
                         Call(34, "print", "stdout", result, 0)>>
                 /\ stdout' = Append(stdout, result)
          /\ line' = NextStmt(34)
          /\ UNCHANGED <<status, exitStatus>>
       \/ /\ EmulatorRaisesOnFailure
          /\ Raise(Call(34, "eval_js", FrameSrcJs, "", 0))
          /\ UNCHANGED stdout
    /\ UNCHANGED <<argv, username, password, browser, frameSrc>>

\* Variant: the script stops the browser after the last pause.
FinalSleepThenStop ==
    /\ status = "running"
    /\ line = 35
    /\ trace' = trace \o <<Call(35, "sleep", "time", "", FinalSleepSecs),
                           Call(35, "stop", "browser", "", 0)>>
    /\ line' = NextStmt(35)
    /\ browser' = "stopped"
    /\ UNCHANGED <<argv, status, exitStatus, username, password, frameSrc,
                   stdout>>

\* line 35: time.sleep(2)
FinalSleep ==
    /\ Sleep(35, FinalSleepSecs)
    /\ UNCHANGED <<argv, username, password, browser, frameSrc, stdout>>

\* Past line 35: the module body is over, the interpreter exits with 0.
EndOfModule ==
    /\ status = "running"
    /\ line = EndOfScript
    /\ status' = "finished"
    /\ exitStatus' = 0
    /\ UNCHANGED <<argv, line, username, password, browser, frameSrc,
                   stdout, trace>>

Next ==
    \/ CheckArgs
    \/ SetUsername
    \/ SetPassword
    \/ PrintMissingArgs
    \/ ExitMissingArgs
    \/ CreateBrowser
    \/ StartBrowser
    \/ Visit
    \/ SleepAfterVisit
    \/ FillUsername
    \/ FillPassword
    \/ ClickSubmit
    \/ WaitForLoadAfterSubmit
    \/ ClearTileTarget
    \/ ClickTile
    \/ WaitForLoadAfterTile
    \/ ClickTimetables
    \/ GotoTimetableHref
    \/ SleepAfterGoto
    \/ ClickConfirm
    \/ ClickTimetableEntry
    \/ PrintFrameSrc
    \/ FinalSleep
    \/ EndOfModule

Spec == Init /\ [][Next]_vars

\* The interpreter keeps running the script until it exits or crashes.
FairSpec == Spec /\ WF_vars(Next)

(* ------------------------- vocabulary of the claims -------------------- *)

Idx == DOMAIN trace

BrowserOps == {"create", "start", "visit", "fill", "click",
               "wait_for_load", "eval_js"}

Terminated == status # "running"

\* The positions of the trace that hold a call of op on target.
At(op, target) == {i \in Idx : trace[i].op = op /\ trace[i].target = target}

StartIssued == \E i \in Idx : trace[i].op = "start"

C2_PrintsFrameSrcOnce ==
    /\ status = "finished" =>
          /\ stdout = <<frameSrc>>
          /\ frameSrc \in Urls
          /\ \E p \in At("print", "stdout") :
                /\ trace[p].value = frameSrc
                /\ \A s \in {UsernameSel, PasswordSel, SubmitSel, TileLinkSel,
                             TimetablesBtn, ConfirmBtn, EntrySel} :
                      \E i \in Idx : /\ i < p
                                    /\ trace[i].target = s
                                    /\ trace[i].op \in {"fill", "click"}
                                    /\ trace[i].ok
    /\ \A i, j \in Idx :
          (i < j /\ trace[i].op = "print") =>
              trace[j].op \notin {"fill", "click"}
    /\ Len(stdout) <= 1
    /\ status = "exited" => \A k \in DOMAIN stdout : stdout[k] \notin Urls

\* C2 witness: a finished run whose output is the second of the frame URLs.
C2_Witness ==
    /\ status = "finished"
    /\ stdout = <<"https://tt/b">>

\* C3: a failing browser step ends the run there: the failed call is the
\* last thing the run did, every call before it returned, no call was
\* issued twice, the exit status is 1 and no frame URL was printed.
C3_FirstFailureCrashes ==
    /\ \A i \in Idx : ~trace[i].ok =>
          /\ i = Len(trace)
          /\ status = "crashed"
          /\ line = trace[i].line
    /\ \A i, j \in Idx :
          (i # j /\ trace[i].line = trace[j].line) => trace[i].op # trace[j].op
    /\ status = "crashed" =>
          /\ trace # <<>>
          /\ ~trace[Len(trace)].ok
          /\ exitStatus = 1
          /\ stdout = <<>>

\* C3 witness: the login was rejected, so the first step after the load
\* (line 24) failed and the run crashed there.
C3_Witness ==
    /\ status = "crashed"
    /\ trace # <<>>
    /\ trace[Len(trace)].line = 24
    /\ ~trace[Len(trace)].ok

\* C4: the session is created and started once, before any other call on
\* the browser, and no run, finished or crashed, ever stops or closes it.
C4_SessionNeverReleased ==
    /\ Cardinality({i \in Idx : trace[i].op = "create"}) <= 1
    /\ Cardinality({i \in Idx : trace[i].op = "start"}) <= 1
    /\ \A i \in Idx :
          trace[i].op \in BrowserOps \ {"create", "start"} =>
              /\ i > 2
              /\ trace[1].op = "create"
              /\ trace[2].op = "start" /\ trace[2].ok
    /\ \A i \in Idx : trace[i].op \notin {"stop", "close", "quit"}
    /\ browser \in {"none", "created", "started"}
    /\ (\E i \in Idx : trace[i].op = "start" /\ trace[i].ok) =>
          browser = "started"

\* C4 witness: a run that crashed with its session still started.
C4_Witness ==
    /\ status = "crashed"
    /\ browser = "started"
    /\ Len(trace) > 10

\* The place of a call in the order the description gives: open, navigate,
\* fill both fields, submit, wait for load, menu clicks, read, print, pause.
\* Calls the description does not list have place 0.
Place(e) ==
    CASE e.op = "start" -> 1
      [] e.op = "visit" -> 2
      [] e.op = "fill" /\ e.target = UsernameSel -> 3
      [] e.op = "fill" /\ e.target = PasswordSel -> 4
      [] e.op = "click" /\ e.target = SubmitSel -> 5
      [] e.op = "wait_for_load" /\ e.line = 23 -> 6
      [] e.op = "click" /\ e.target = TileLinkSel -> 7
      [] e.op = "click" /\ e.target = TimetablesBtn -> 8
      [] e.op = "click" /\ e.target = ConfirmBtn -> 9
      [] e.op = "click" /\ e.target = EntrySel -> 10
      [] e.op = "eval_js" /\ e.target = FrameSrcJs -> 11
      [] e.op = "print" /\ e.line = 34 -> 12
      [] e.op = "sleep" /\ e.line = 35 -> 13
      [] OTHER -> 0

\* C5: past the argument check the steps run one after another in the
\* order given, each at most once: a step is issued only when every step
\* listed before it has been issued and has returned, and the run exits
\* only after the last one.
C5_FixedOrder ==
    /\ \A i, j \in Idx :
          (i < j /\ Place(trace[i]) > 0 /\ Place(trace[j]) > 0) =>
              Place(trace[i]) < Place(trace[j])
    /\ \A j \in Idx :
          \A q \in 1..(Place(trace[j]) - 1) :
              \E i \in Idx : i < j /\ Place(trace[i]) = q /\ trace[i].ok
    /\ \A i, j \in Idx : i < j => trace[i].line <= trace[j].line
    /\ \A i \in Idx : i < Len(trace) => trace[i].ok
    /\ status = "finished" =>
          \E i \in Idx : Place(trace[i]) = 13 /\ trace[i].ok

\* C5 witness: a run that went through every step and exited.
C5_Witness ==
    /\ status = "finished"
    /\ exitStatus = 0
    /\ Len(trace) = 19

\* The clicks issued after the wait that follows the submit click and
\* before the read of the frame's src.
MenuClicks ==
    {i \in Idx :
        /\ trace[i].op = "click"
        /\ \E w \in Idx : w < i /\ trace[w].op = "wait_for_load"
        /\ \A r \in At("eval_js", FrameSrcJs) : i < r}

\* C6 as stated: a successful run issues exactly three clicks in that span.
C6_ThreeMenuClicks ==
    status = "finished" => Cardinality(MenuClicks) = 3

\* C6 amended: a successful run issues exactly four clicks in that span
\* (the tile link, the Timetables button, the confirm button and the
\* timetable entry), and two script evaluations.
C6_FourMenuClicks ==
    status = "finished" =>
        /\ Cardinality(MenuClicks) = 4
        /\ {trace[i].target : i \in MenuClicks} =
              {TileLinkSel, TimetablesBtn, ConfirmBtn, EntrySel}
        /\ \A i \in MenuClicks : trace[i].ok

\* C6 witness: a finished run with the click on the timetable entry in it.
C6_Witness ==
    /\ status = "finished"
    /\ At("click", EntrySel) # {}
    /\ frameSrc = "https://tt/a"

Waits == {i \in Idx : trace[i].op \in {"sleep", "wait_for_load"}}

\* C7 as stated: every wait of the run is a fixed sleep.
C7_OnlyFixedSleeps ==
    \A i \in Waits : trace[i].op = "sleep"

\* C7 amended: the waits are three sleeps of fixed length (3 s after the
\* navigation, 1 s after the script-driven navigation, 2 s after the
\* print), the same whatever the page holds, and two wait_for_load calls
\* (after the submit click and after the tile click); none is repeated.
C7_SleepsAndLoadWaits ==
    /\ \A i \in Waits :
          \/ /\ trace[i].op = "sleep"
             /\ trace[i].ok
             /\ trace[i].secs = (CASE trace[i].line = 19 -> 3
                                   [] trace[i].line = 31 -> 1
                                   [] trace[i].line = 35 -> 2
                                   [] OTHER -> -1)
          \/ /\ trace[i].op = "wait_for_load"
             /\ trace[i].line \in {23, 26}
             /\ i > 1
             /\ trace[i - 1].op = "click"
    /\ \A i, j \in Waits : trace[i].line = trace[j].line => i = j
    /\ status = "finished" =>
          /\ Cardinality({i \in Waits : trace[i].op = "sleep"}) = 3
          /\ Cardinality({i \in Waits : trace[i].op = "wait_for_load"}) = 2

\* C7 witness: a run that is past both wait_for_load calls and two sleeps.
C7_Witness ==
    /\ \E i \in Waits : trace[i].line = 26 /\ trace[i].ok
    /\ \E i \in Waits : trace[i].line = 31
    /\ status = "running"

C9_CredentialsOnlyIntoForm ==
    /\ \A i \in Idx : trace[i].op = "fill" =>
          \/ trace[i].target = UsernameSel /\ trace[i].value = argv[2]
          \/ trace[i].target = PasswordSel /\ trace[i].value = argv[3]
    /\ Cardinality(At("fill", UsernameSel)) <= 1
    /\ Cardinality(At("fill", PasswordSel)) <= 1
    /\ \A c \in At("click", SubmitSel) :
          /\ \E i \in At("fill", UsernameSel) : i < c /\ trace[i].ok
          /\ \E i \in At("fill", PasswordSel) : i < c /\ trace[i].ok
          /\ \A i \in Idx : trace[i].op = "fill" => i < c
    /\ \A i \in Idx : trace[i].op # "fill" => trace[i].value \notin ArgValues
    /\ \A k \in DOMAIN stdout : stdout[k] \notin ArgValues

\* C9 witness: a finished run whose username and password differ.
C9_Witness ==
    /\ status = "finished"
    /\ Len(argv) = 3
    /\ argv[2] = "alice" /\ argv[3] = "s3cret"

\* C10: a run with more than two arguments is not rejected; it takes the
\* first as username and the second as password, and an argument after the
\* second that differs from both shows up in no step and no output.
C10_ExtraArgsIgnored ==
    Len(argv) > 3 =>
        /\ status # "exited"
        /\ line \notin {12, 13}
        /\ \A k \in DOMAIN stdout : stdout[k] # MissingArgsMessage
        /\ line >= 16 => (username = argv[2] /\ password = argv[3])
        /\ \A i \in Idx : trace[i].op = "fill" =>
              trace[i].value = (IF trace[i].target = UsernameSel
                                THEN argv[2] ELSE argv[3])
        /\ \A m \in 4..Len(argv) :
              argv[m] \notin {argv[2], argv[3]} =>
                  /\ \A i \in Idx : trace[i].value # argv[m]
                  /\ \A k \in DOMAIN stdout : stdout[k] # argv[m]
                  /\ username # argv[m] /\ password # argv[m]
        /\ Terminated => StartIssued

\* C10 witness: a run given a third argument unlike the first two finished.
C10_Witness ==
    /\ Len(argv) = 4
    /\ argv[4] = "extra" /\ argv[2] = "alice" /\ argv[3] = "s3cret"
    /\ status = "finished"

====
